---- MODULE Spec2Model ----
(***************************************************************************)
(* Model of the graphics discoverer of the NVIDIA Container Toolkit        *)
(* (package discover, src/unnamed/part_000) and of the runtime hook binary *)
(* (src/cmd/nvidia-container-runtime-hook/main.go).                        *)
(*                                                                         *)
(* A Go string that the code takes apart or puts together is a sequence of *)
(* tokens: a path is the sequence of its components, an absolute path      *)
(* starting with the component "/"; fmt.Sprintf concatenates.              *)
(***************************************************************************)
EXTENDS Naturals, Sequences, FiniteSets

(* ------------------------------ bounds --------------------------------- *)

\* Longest device list the upstream discoverer returns.
MaxDevices == 2
\* Most by-path symlinks the file locator returns.
MaxCandidates == 3
\* Most candidates the executable locator returns.
MaxTargets == 2
\* Most GPU information files the host has.
MaxGPUs == 2

(* ------------------------- strings and paths --------------------------- *)

Range(s) == {s[k] : k \in 1..Len(s)}

\* All sequences over S of length at most n.
SeqsUpTo(S, n) == UNION {[1..k -> S] : k \in 0..n}

\* path/filepath.Base: the last component; "." for the empty path.
Base(p) == IF p = <<>> THEN "." ELSE p[Len(p)]

\* path/filepath.Clean on components: "." dropped, "x/.." cancelled, ".."
\* dropped at the root and kept at the start of a relative path.
RECURSIVE CleanFrom(_, _)
CleanFrom(done, rest) ==
    IF rest = <<>> THEN (IF done = <<>> THEN <<".">> ELSE done)
    ELSE LET c == Head(rest)
             top == IF done = <<>> THEN "" ELSE done[Len(done)]
         IN  IF c = "." THEN CleanFrom(done, Tail(rest))
             ELSE IF c = ".."
                     THEN IF top = "/" THEN CleanFrom(done, Tail(rest))
                          ELSE IF done = <<>> \/ top = ".."
                                  THEN CleanFrom(Append(done, c), Tail(rest))
                                  ELSE CleanFrom(SubSeq(done, 1, Len(done) - 1), Tail(rest))
                     ELSE CleanFrom(Append(done, c), Tail(rest))

Clean(p) == CleanFrom(<<>>, p)

\* path/filepath.Join of one element: empty stays empty, the rest is cleaned.
Join(p) == IF p = <<>> THEN <<>> ELSE Clean(p)

\* The well-known install path of the NVIDIA Container Toolkit CLI.
nvidiaCTKDefaultFilePath == <<"/", "usr", "bin", "nvidia-ctk">>

(* --------------------------- host universe ----------------------------- *)

DRMNodeNames == {"card0", "card1", "card2", "renderD128", "renderD129", "renderD130"}

DevDri(name) == <<"/", "dev", "dri", name>>

\* A discover.Device: container path and host path.
Device(name) == [Path |-> DevDri(name), HostPath |-> DevDri(name)]

\* The devices the upstream discoverer can return.
UpstreamDevices == {Device(n) : n \in {"card0", "card1", "renderD128"}}

\* The by-path symlinks of the host, in the order a glob returns them.
ByPathLinks ==
    << <<"/", "dev", "dri", "by-path", "pci-0000:01:00.0-card">>,
       <<"/", "dev", "dri", "by-path", "pci-0000:01:00.0-render">>,
       <<"/", "dev", "dri", "by-path", "pci-0000:02:00.0-card">>,
       <<"/", "dev", "dri", "by-path", "pci-0000:02:00.0-render">> >>

\* What os.Readlink can return for a symlink: an error or the link's target.
ReadlinkFailed == [ok |-> FALSE, target |-> <<>>]

ReadlinkResults ==
    {ReadlinkFailed}
    \cup {[ok |-> TRUE, target |-> <<"..", n>>] : n \in {"card0", "card1", "renderD128"}}
    \cup {[ok |-> TRUE, target |-> DevDri("card0")]}

\* Paths the executable locator can find the CLI at.
CTKCandidates ==
    << <<"/", "usr", "local", "nvidia", "toolkit", "nvidia-ctk">>,
       <<"/", "usr", "bin", "nvidia-ctk">>,
       <<"/", "opt", "nvidia", "nvidia-ctk">> >>

\* The strictly increasing index sequences of length at most n into 1..m.
Increasing(m, n) ==
    {s \in SeqsUpTo(1..m, n) : \A a \in 1..(Len(s) - 1) : s[a] < s[a + 1]}

\* The sub-lists of list, in order, of length at most n.
SubLists(list, n) ==
    {[k \in 1..Len(s) |-> list[s[k]]] : s \in Increasing(Len(list), n)}

VARIABLES
    hpc,             \* position in drmDevicesByPath.Hooks
    devices,         \* Hooks: what d.devicesFrom.Devices() returned
    targets,         \* Hooks: what d.lookup.Locate returned
    hookPath,        \* Hooks: the chosen CLI path
    selectedDevices, \* getSpecificLinkArgs: basenames of the devices
    candidates,      \* getSpecificLinkArgs: what linkLocator.Locate returned
    readlinks,       \* what os.Readlink returned for each candidate so far
    links,           \* getSpecificLinkArgs: the link arguments so far
    hooksRes,        \* what Hooks returned: [hooks, err]
    calls,           \* the collaborators Hooks has called
    gpc,             \* position in NewGraphicsDiscoverer
    visible,         \* the image.VisibleDevices passed in
    locatorErr,      \* whether lookup.NewLibraryLocator failed
    gpuInformationPaths, \* what proc.GetInformationFilePaths returned
    infos,           \* what proc.ParseGPUInformationFile returned, per file
    selectedBusIds,  \* newDRMDeviceFilter: the bus IDs of the visible GPUs
    drmQueried,      \* what drm.GetDeviceNodesByBusID returned, per bus ID
    filter,          \* newDRMDeviceFilter: the selectDeviceByPath being built
    filterRes,       \* what newDRMDeviceFilter returned
    drmRes,          \* what newDRMDeviceDiscoverer returned
    graphicsRes,     \* what NewGraphicsDiscoverer returned
    mpc,             \* position in the runtime hook binary
    cmdline,         \* the command line: flags and flag.Args()
    hook,            \* doPrestart: the hook configuration
    mode,            \* doPrestart: what info.ResolveAutoMode returned
    container,       \* doPrestart: the container configuration
    rootfs,          \* doPrestart: the absolute rootfs path
    execArgs,        \* doPrestart: the arguments being built for the CLI
    panicking,       \* the value of the panic under way, <<>> when there is none
    logged,          \* the lines written to the log
    exitStatus,      \* the status passed to os.Exit, once mpc is "exited"
    mcalls,          \* the system and library calls made so far
    fatal            \* the fatal conditions met so far

hvars == <<hpc, devices, targets, hookPath, selectedDevices, candidates,
           readlinks, links, hooksRes, calls>>

gvars == <<gpc, visible, locatorErr, gpuInformationPaths, infos, selectedBusIds,
           drmQueried, filter, filterRes, drmRes, graphicsRes>>

mvars == <<mpc, cmdline, hook, mode, container, rootfs, execArgs, panicking,
           logged, exitStatus, mcalls, fatal>>

vars == <<hvars, gvars, mvars>>

(* ----------------------- drmDevicesByPath.Hooks ------------------------ *)

\* The result of a call that returns (list, error).
Failed == [err |-> TRUE, list |-> <<>>]
Ok(list) == [err |-> FALSE, list |-> list]

\* d.devicesFrom.Devices(): an error, or the (already filtered) devices.
DevicesResults ==
    {Failed} \cup {Ok(s) : s \in SeqsUpTo(UpstreamDevices, MaxDevices)}

\* d.lookup.Locate(d.nvidiaCTKExecutablePath): an error, or the candidates.
TargetsResults ==
    {Failed} \cup {Ok(s) : s \in SubLists(CTKCandidates, MaxTargets)}

\* linkLocator.Locate("/dev/dri/by-path/pci-*-*"): an error, or the matches.
CandidatesResults ==
    {Failed} \cup {Ok(s) : s \in SubLists(ByPathLinks, MaxCandidates)}

\* Hooks has returned nothing yet.
Pending == [hooks |-> <<>>, err |-> "pending"]

\* The error dropped: return nil, nil.
ReturnError_dropped(msg) == [hooks |-> <<>>, err |-> "nil"]

\* return nil, fmt.Errorf(msg, err)
ReturnError(msg) == [hooks |-> <<>>, err |-> msg]

\* return nil, nil
ReturnNone == [hooks |-> <<>>, err |-> "nil"]

\* return []Hook{h}, nil
ReturnHook(h) == [hooks |-> <<h>>, err |-> "nil"]

HooksStart(pc) ==
    /\ hpc = pc
    /\ devices = Ok(<<>>)
    /\ targets = Ok(<<>>)
    /\ hookPath = <<>>
    /\ selectedDevices = {}
    /\ candidates = Ok(<<>>)
    /\ readlinks = <<>>
    /\ links = <<>>
    /\ hooksRes = Pending
    /\ calls = {}

\* The check for an empty device list left out.
NoDevices_never(devs) == FALSE

\* len(devices) == 0
NoDevices(devs) == Len(devs) = 0

\* devices, err := d.devicesFrom.Devices(), and the two early returns.
Hooks_Devices ==
    /\ hpc = "Devices"
    /\ \E r \in DevicesResults :
         /\ devices' = r
         /\ IF r.err
               THEN /\ hooksRes' = ReturnError("failed to discover devices for by-path symlinks")
                    /\ hpc' = "done"
               ELSE IF NoDevices(r.list)
                       THEN /\ hooksRes' = ReturnNone
                            /\ hpc' = "done"
                       ELSE /\ hooksRes' = hooksRes
                            /\ hpc' = "Locate"
    /\ calls' = calls \cup {"devicesFrom.Devices"}
    /\ UNCHANGED <<targets, hookPath, selectedDevices, candidates, readlinks, links>>
    /\ UNCHANGED <<gvars, mvars>>

\* The last candidate taken instead of the first.
ChooseHookPath_last(r) ==
    IF r.err THEN nvidiaCTKDefaultFilePath
    ELSE IF Len(r.list) = 0 THEN nvidiaCTKDefaultFilePath
    ELSE r.list[Len(r.list)]

\* hookPath: the default, replaced by targets[0] when the locator found any.
ChooseHookPath(r) ==
    IF r.err THEN nvidiaCTKDefaultFilePath
    ELSE IF Len(r.list) = 0 THEN nvidiaCTKDefaultFilePath
    ELSE r.list[1]

\* targets, err := d.lookup.Locate(d.nvidiaCTKExecutablePath)
Hooks_Locate ==
    /\ hpc = "Locate"
    /\ \E r \in TargetsResults :
         /\ targets' = r
         /\ hookPath' = ChooseHookPath(r)
    /\ calls' = calls \cup {"lookup.Locate"}
    /\ hpc' = "getSpecificLinkArgs"
    /\ UNCHANGED <<devices, selectedDevices, candidates, readlinks, links, hooksRes>>
    /\ UNCHANGED <<gvars, mvars>>

\* selectedDevices[filepath.Base(d.HostPath)] = true, for each device
SelectedDevices(devs) == {Base(devs[k].HostPath) : k \in 1..Len(devs)}

\* getSpecificLinkArgs up to its loop: the basenames, then the by-path glob.
getSpecificLinkArgs_Locate ==
    /\ hpc = "getSpecificLinkArgs"
    /\ selectedDevices' = SelectedDevices(devices.list)
    /\ \E r \in CandidatesResults :
         /\ candidates' = r
         /\ IF r.err
               THEN /\ hooksRes' = ReturnError("failed to determine specific links")
                    /\ hpc' = "done"
               ELSE /\ hooksRes' = hooksRes
                    /\ hpc' = "Readlink"
    /\ calls' = calls \cup {"linkLocator.Locate"}
    /\ UNCHANGED <<devices, targets, hookPath, readlinks, links>>
    /\ UNCHANGED <<gvars, mvars>>

\* The whole target looked up instead of its basename.
LinkIsSelected_whole(selected, device) ==
    Len(device) = 1 /\ device[1] \in selected

\* selectedDevices[filepath.Base(device)]
LinkIsSelected(selected, device) == Base(device) \in selected

\* fmt.Sprintf("%v::%v", device, c)
LinkArg(device, c) == device \o <<"::">> \o c

\* One iteration of the loop over the candidates.
getSpecificLinkArgs_Readlink ==
    /\ hpc = "Readlink"
    /\ Len(readlinks) < Len(candidates.list)
    /\ LET c == candidates.list[Len(readlinks) + 1]
       IN  \E r \in ReadlinkResults :
             /\ readlinks' = Append(readlinks, r)
             /\ links' = IF r.ok /\ LinkIsSelected(selectedDevices, r.target)
                            THEN Append(links, LinkArg(r.target, c))
                            ELSE links
    /\ calls' = calls \cup {"os.Readlink"}
    /\ UNCHANGED <<hpc, devices, targets, hookPath, selectedDevices, candidates, hooksRes>>
    /\ UNCHANGED <<gvars, mvars>>

\* args: the three fixed arguments, then "--link", l for each link l.
RECURSIVE LinkFlags(_)
LinkFlags(ls) ==
    IF ls = <<>> THEN <<>>
    ELSE << <<"--link">>, Head(ls) >> \o LinkFlags(Tail(ls))

\* One "--link" for all the links.
HookArgs_oneFlag(path, ls) ==
    <<path, <<"hook">>, <<"create-symlinks">>, <<"--link">> >> \o ls

HookArgs(path, ls) == <<path, <<"hook">>, <<"create-symlinks">> >> \o LinkFlags(ls)

\* The hook of Hooks.
CreateSymlinksHook(path, ls) ==
    [Lifecycle |-> "createContainer", Path |-> path, Args |-> HookArgs(path, ls)]

\* The loop is over: getSpecificLinkArgs returns links, Hooks returns the hook.
Hooks_Return ==
    /\ hpc = "Readlink"
    /\ Len(readlinks) = Len(candidates.list)
    /\ hooksRes' = ReturnHook(CreateSymlinksHook(hookPath, links))
    /\ hpc' = "done"
    /\ UNCHANGED <<devices, targets, hookPath, selectedDevices, candidates,
                   readlinks, links, calls>>
    /\ UNCHANGED <<gvars, mvars>>

HooksNext ==
    \/ Hooks_Devices
    \/ Hooks_Locate
    \/ getSpecificLinkArgs_Locate
    \/ getSpecificLinkArgs_Readlink
    \/ Hooks_Return


(* ----------------------- NewGraphicsDiscoverer ------------------------- *)

\* The keys of a parsed GPU information file.
GPUInfoGPUUUID == "GPU UUID"
GPUInfoBusLocation == "Bus Location"
GPUInfoDeviceMinor == "Device Minor"

GPUInfo(uuid, busID, minor) ==
    [k \in {GPUInfoGPUUUID, GPUInfoBusLocation, GPUInfoDeviceMinor} |->
        IF k = GPUInfoGPUUUID THEN uuid
        ELSE IF k = GPUInfoBusLocation THEN busID ELSE minor]

\* The GPUs of the host, in the order of their information files
\* (/proc/driver/nvidia/gpus/<bus ID>/information), with their DRM nodes.
HostGPUs ==
    << [info |-> GPUInfo("GPU-a", "0000:01:00.0", "0"),
        nodes |-> <<DevDri("card0"), DevDri("renderD128")>>],
       [info |-> GPUInfo("GPU-b", "0000:02:00.0", "1"),
        nodes |-> <<DevDri("card1"), DevDri("renderD129")>>],
       [info |-> GPUInfo("GPU-c", "0000:03:00.0", "2"),
        nodes |-> <<DevDri("card2"), DevDri("renderD130")>>] >>

\* image.VisibleDevices: every device ("all"), or the listed identifiers.
VisibleIDs == {"0", "1", "GPU-b", "0000:03:00.0", "GPU-z"}

VisibleDevicesValues ==
    {[all |-> TRUE, ids |-> {}]} \cup {[all |-> FALSE, ids |-> S] : S \in SUBSET VisibleIDs}

\* VisibleDevices.Has(id)
Has(v, id) == v.all \/ id \in v.ids

\* proc.GetInformationFilePaths(root): an error, or the files of some GPUs.
InformationPathsResults ==
    {Failed} \cup {Ok(s) : s \in SubLists(HostGPUs, MaxGPUs)}

\* proc.ParseGPUInformationFile(f): an error, or the file's key-value pairs.
ParseFailed == [err |-> TRUE, info |-> GPUInfo("", "", "")]

ParseResults(g) == {ParseFailed, [err |-> FALSE, info |-> g.info]}

\* drm.GetDeviceNodesByBusID(busID): an error, or the DRM nodes of the GPU
\* at that bus address: none, its card node, or its card and render nodes.
NodesOf(busID) ==
    LET g == CHOOSE h \in Range(HostGPUs) : h.info[GPUInfoBusLocation] = busID
    IN  {SubSeq(g.nodes, 1, n) : n \in 0..Len(g.nodes)}

NodesResults(busID) ==
    {[busID |-> busID, err |-> TRUE, list |-> <<>>]}
    \cup {[busID |-> busID, err |-> FALSE, list |-> l] : l \in NodesOf(busID)}

\* A (value, error) result: val is <<>> for nil, <<v>> for the value v.
NotReturned == [val |-> <<>>, err |-> "pending"]
Nil(msg) == [val |-> <<>>, err |-> msg]
Value(v) == [val |-> <<v>>, err |-> "nil"]

GraphicsStart(pc) ==
    /\ gpc = pc
    /\ visible \in (IF pc = "idle" THEN {[all |-> FALSE, ids |-> {}]}
                                   ELSE VisibleDevicesValues)
    /\ locatorErr = FALSE
    /\ gpuInformationPaths = Ok(<<>>)
    /\ infos = <<>>
    /\ selectedBusIds = <<>>
    /\ drmQueried = <<>>
    /\ filter = {}
    /\ filterRes = NotReturned
    /\ drmRes = NotReturned
    /\ graphicsRes = NotReturned

\* The discoverers NewGraphicsDiscoverer builds.
NewMounts(locator, required) == [kind |-> "mounts", locator |-> locator, required |-> required]

libraries == NewMounts("library", {"libnvidia-egl-gbm.so"})

jsonMounts ==
    NewMounts("file",
              {"/etc/glvnd/egl_vendor.d/10_nvidia.json",
               "/etc/vulkan/icd.d/nvidia_icd.json",
               "/etc/vulkan/implicit_layer.d/nvidia_layers.json",
               "/usr/share/glvnd/egl_vendor.d/10_nvidia.json",
               "/usr/share/vulkan/icd.d/nvidia_icd.json",
               "/usr/share/vulkan/implicit_layer.d/nvidia_layers.json",
               "/usr/share/egl/egl_external_platform.d/15_nvidia_gbm.json"})

allDevices ==
    [kind |-> "devices", locator |-> "chardevice",
     required |-> {"/dev/dri/card*", "/dev/dri/renderD*"}]

\* newFilteredDisoverer(logger, allDevices, filter)
drmDeviceNodes(f) == [kind |-> "filtered", inner |-> allDevices, filter |-> f]

\* newCreateDRMByPathSymlinks(logger, drmDeviceNodes, cfg)
drmByPathSymlinks(f) == [kind |-> "drmDevicesByPath", devicesFrom |-> drmDeviceNodes(f)]

\* Merge(Merge(drmDeviceNodes, drmByPathSymlinks), libraries, jsonMounts)
GraphicsDiscoverer(f) ==
    [kind |-> "merge",
     of |-> << [kind |-> "merge", of |-> <<drmDeviceNodes(f), drmByPathSymlinks(f)>>],
               libraries, jsonMounts >>]

\* The locator's error not checked.
LocatorFailure_ignored ==
    /\ graphicsRes' = graphicsRes
    /\ gpc' = "GetInformationFilePaths"

\* The library locator cannot be constructed: NewGraphicsDiscoverer returns.
LocatorFailure ==
    /\ graphicsRes' = Nil("failed to construct library locator")
    /\ gpc' = "done"

\* locator, err := lookup.NewLibraryLocator(logger, root)
NewGraphicsDiscoverer_Locator ==
    /\ gpc = "NewLibraryLocator"
    /\ \E e \in BOOLEAN :
         /\ locatorErr' = e
         /\ IF e THEN LocatorFailure
                 ELSE /\ graphicsRes' = graphicsRes
                      /\ gpc' = "GetInformationFilePaths"
    /\ UNCHANGED <<visible, gpuInformationPaths, infos, selectedBusIds, drmQueried,
                   filter, filterRes, drmRes>>
    /\ UNCHANGED <<hvars, mvars>>

\* newDRMDeviceFilter returns an error, and so do its two callers.
FilterFailure(msg) ==
    /\ filterRes' = Nil(msg)
    /\ drmRes' = Nil("failed to construct DRM device filter")
    /\ graphicsRes' = Nil("failed to create DRM device discoverer")
    /\ gpc' = "done"

\* gpuInformationPaths, err := proc.GetInformationFilePaths(root)
newDRMDeviceFilter_Paths ==
    /\ gpc = "GetInformationFilePaths"
    /\ \E r \in InformationPathsResults :
         /\ gpuInformationPaths' = r
         /\ IF r.err THEN FilterFailure("failed to read GPU information")
                     ELSE /\ gpc' = "ParseGPUInformationFile"
                          /\ UNCHANGED <<filterRes, drmRes, graphicsRes>>
    /\ UNCHANGED <<visible, locatorErr, infos, selectedBusIds, drmQueried, filter>>
    /\ UNCHANGED <<hvars, mvars>>

\* The bus ID left out of the test.
GPUIsSelected_noBusID(v, info) ==
    \/ Has(v, info[GPUInfoDeviceMinor])
    \/ Has(v, info[GPUInfoGPUUUID])

\* devices.Has(minor) || devices.Has(uuid) || devices.Has(busID)
GPUIsSelected(v, info) ==
    \/ Has(v, info[GPUInfoDeviceMinor])
    \/ Has(v, info[GPUInfoGPUUUID])
    \/ Has(v, info[GPUInfoBusLocation])

\* One iteration of the loop over gpuInformationPaths.
newDRMDeviceFilter_Parse ==
    /\ gpc = "ParseGPUInformationFile"
    /\ Len(infos) < Len(gpuInformationPaths.list)
    /\ \E r \in ParseResults(gpuInformationPaths.list[Len(infos) + 1]) :
         /\ infos' = Append(infos, r)
         /\ IF r.err
               THEN /\ FilterFailure("failed to parse")
                    /\ selectedBusIds' = selectedBusIds
               ELSE /\ selectedBusIds' =
                          IF GPUIsSelected(visible, r.info)
                             THEN Append(selectedBusIds, r.info[GPUInfoBusLocation])
                             ELSE selectedBusIds
                    /\ UNCHANGED <<gpc, filterRes, drmRes, graphicsRes>>
    /\ UNCHANGED <<visible, locatorErr, gpuInformationPaths, drmQueried, filter>>
    /\ UNCHANGED <<hvars, mvars>>

\* The loop over gpuInformationPaths is over: filter := make(selectDeviceByPath)
newDRMDeviceFilter_Make ==
    /\ gpc = "ParseGPUInformationFile"
    /\ Len(infos) = Len(gpuInformationPaths.list)
    /\ filter' = {}
    /\ gpc' = "GetDeviceNodesByBusID"
    /\ UNCHANGED <<visible, locatorErr, gpuInformationPaths, infos, selectedBusIds,
                   drmQueried, filterRes, drmRes, graphicsRes>>
    /\ UNCHANGED <<hvars, mvars>>

\* filter[filepath.Join(drmDeviceNode)] = true, for each node
WithNodes(f, nodes) == f \cup {Join(nodes[k]) : k \in 1..Len(nodes)}

\* A failing bus ID skipped (continue) instead of failing the call.
newDRMDeviceFilter_Nodes_skip ==
    /\ gpc = "GetDeviceNodesByBusID"
    /\ Len(drmQueried) < Len(selectedBusIds)
    /\ \E r \in NodesResults(selectedBusIds[Len(drmQueried) + 1]) :
         /\ drmQueried' = Append(drmQueried, r)
         /\ filter' = IF r.err THEN filter ELSE WithNodes(filter, r.list)
    /\ UNCHANGED <<gpc, filterRes, drmRes, graphicsRes>>
    /\ UNCHANGED <<visible, locatorErr, gpuInformationPaths, infos, selectedBusIds>>
    /\ UNCHANGED <<hvars, mvars>>

\* One iteration of the loop over selectedBusIds.
newDRMDeviceFilter_Nodes ==
    /\ gpc = "GetDeviceNodesByBusID"
    /\ Len(drmQueried) < Len(selectedBusIds)
    /\ \E r \in NodesResults(selectedBusIds[Len(drmQueried) + 1]) :
         /\ drmQueried' = Append(drmQueried, r)
         /\ IF r.err
               THEN /\ FilterFailure("failed to determine DRM devices")
                    /\ filter' = filter
               ELSE /\ filter' = WithNodes(filter, r.list)
                    /\ UNCHANGED <<gpc, filterRes, drmRes, graphicsRes>>
    /\ UNCHANGED <<visible, locatorErr, gpuInformationPaths, infos, selectedBusIds>>
    /\ UNCHANGED <<hvars, mvars>>

\* newDRMDeviceFilter returns the filter; newDRMDeviceDiscoverer wraps all the
\* DRM nodes in it; NewGraphicsDiscoverer merges the discoverers.
NewGraphicsDiscoverer_Return ==
    /\ gpc = "GetDeviceNodesByBusID"
    /\ Len(drmQueried) = Len(selectedBusIds)
    /\ filterRes' = Value(filter)
    /\ drmRes' = Value(drmDeviceNodes(filter))
    /\ graphicsRes' = Value(GraphicsDiscoverer(filter))
    /\ gpc' = "done"
    /\ UNCHANGED <<visible, locatorErr, gpuInformationPaths, infos, selectedBusIds,
                   drmQueried, filter>>
    /\ UNCHANGED <<hvars, mvars>>

\* selectDeviceByPath.DeviceIsSelected(device)
DeviceIsSelected(s, device) == device.Path \in s

GraphicsNext ==
    \/ NewGraphicsDiscoverer_Locator
    \/ newDRMDeviceFilter_Paths
    \/ newDRMDeviceFilter_Parse
    \/ newDRMDeviceFilter_Make
    \/ newDRMDeviceFilter_Nodes
    \/ NewGraphicsDiscoverer_Return

(* ------------------------ the runtime hook binary ---------------------- *)

\* An optional value (a nil or non-nil pointer): <<>> or <<v>>.
None == <<>>
Some(v) == <<v>>

\* The command lines: a flag error, or the flags and flag.Args().
CommandLines ==
    {[flagError |-> TRUE, versionflag |-> FALSE, debugflag |-> FALSE, args |-> <<>>]}
    \cup {[flagError |-> FALSE, versionflag |-> v, debugflag |-> d, args |-> a] :
            v \in BOOLEAN, d \in BOOLEAN,
            a \in {<<>>, <<"prestart">>, <<"poststart">>, <<"poststop">>, <<"status">>}}

\* The hook configurations getHookConfig can return.
CLIConfigs ==
    { [Path |-> None, Root |-> None, LoadKmods |-> FALSE, NoPivot |-> FALSE,
       Debug |-> None, Ldcache |-> None, User |-> None, Ldconfig |-> None,
       NoCgroups |-> FALSE, Environment |-> <<>>],
      [Path |-> Some(<<"/", "usr", "bin", "nvidia-container-cli">>),
       Root |-> Some(<<"/", "run", "nvidia", "driver">>),
       LoadKmods |-> TRUE, NoPivot |-> TRUE,
       Debug |-> Some(<<"/", "var", "log", "nvidia-container-toolkit.log">>),
       Ldcache |-> Some(<<"/", "etc", "ld.so.cache">>), User |-> Some(<<"root:video">>),
       Ldconfig |-> Some(<<"@", "/", "sbin", "ldconfig">>),
       NoCgroups |-> TRUE, Environment |-> <<"NVC_DEBUG_FILE=/tmp/nvc.log">>] }

HookConfigs ==
    {[DisableRequire |-> dr, NvidiaContainerCLI |-> cli] :
        dr \in BOOLEAN, cli \in CLIConfigs}

\* The modes info.ResolveAutoMode can resolve to.
Modes == {"legacy", "csv", "cdi"}

\* The NVIDIA sections of a container configuration.
NvidiaConfigs ==
    { [Devices |-> "all", MigConfigDevices |-> "", MigMonitorDevices |-> "",
       DriverCapabilities |-> <<"compute", "utility">>,
       Requirements |-> <<"cuda>=11.8">>, DisableRequire |-> FALSE],
      [Devices |-> "", MigConfigDevices |-> "0", MigMonitorDevices |-> "all",
       DriverCapabilities |-> <<"">>,
       Requirements |-> <<"cuda>=11.8", "driver>=450">>, DisableRequire |-> TRUE],
      [Devices |-> "0,1", MigConfigDevices |-> "", MigMonitorDevices |-> "",
       DriverCapabilities |-> <<"graphics", "", "video">>,
       Requirements |-> <<>>, DisableRequire |-> FALSE],
      [Devices |-> "0", MigConfigDevices |-> "", MigMonitorDevices |-> "",
       DriverCapabilities |-> <<"compute", "bogus">>,
       Requirements |-> <<>>, DisableRequire |-> FALSE] }

\* The container configurations getContainerConfig can return.
ContainerConfigs ==
    {[Pid |-> 4711, Rootfs |-> <<"rootfs">>, Nvidia |-> None]}
    \cup {[Pid |-> 4711, Rootfs |-> <<"rootfs">>, Nvidia |-> Some(n)] : n \in NvidiaConfigs}

NoHook == [DisableRequire |-> FALSE,
           NvidiaContainerCLI |-> CHOOSE c \in CLIConfigs : c.Path = None]

NoContainer == [Pid |-> 0, Rootfs |-> <<>>, Nvidia |-> None]

MainStart(pc) ==
    /\ mpc = pc
    /\ cmdline \in (IF pc = "idle" THEN {CHOOSE c \in CommandLines : c.flagError}
                                   ELSE CommandLines)
    /\ hook = NoHook
    /\ mode = ""
    /\ container = NoContainer
    /\ rootfs = <<>>
    /\ execArgs = <<>>
    /\ panicking = None
    /\ logged = <<>>
    /\ exitStatus = 0
    /\ mcalls = {}
    /\ fatal = {}

\* os.Exit(code)
Exit(code) ==
    /\ exitStatus' = code
    /\ mpc' = "exited"

\* log.Panicln(msg): the message is logged, then the function panics and its
\* deferred exit() runs.
Panicln(msg) ==
    /\ logged' = Append(logged, msg)
    /\ panicking' = Some(msg)
    /\ mpc' = "exit"

\* "poststart" falling through to the prestart case.
IsPrestart_fallthrough(cmd) == cmd \in {"prestart", "poststart"}

\* case "prestart":
IsPrestart(cmd) == cmd = "prestart"

\* case "poststart": fallthrough; case "poststop":
IsNoOp(cmd) == cmd \in {"poststart", "poststop"}

\* main: the flags, then the switch on args[0].
main ==
    /\ mpc = "main"
    /\ IF cmdline.flagError THEN Exit(2)
       ELSE IF cmdline.versionflag THEN Exit(0)
       ELSE IF Len(cmdline.args) = 0 THEN Exit(2)
       ELSE IF IsPrestart(cmdline.args[1])
               THEN /\ mpc' = "getHookConfig"
                    /\ exitStatus' = exitStatus
       ELSE IF IsNoOp(cmdline.args[1]) THEN Exit(0)
       ELSE Exit(2)
    /\ UNCHANGED <<cmdline, hook, mode, container, rootfs, execArgs, panicking,
                   logged, mcalls, fatal>>
    /\ UNCHANGED <<hvars, gvars>>

\* hook := getHookConfig(): the configuration, or a panic when it cannot be read.
doPrestart_getHookConfig ==
    /\ mpc = "getHookConfig"
    /\ mcalls' = mcalls \cup {"getHookConfig"}
    /\ \/ /\ Panicln("couldn't read the hook configuration")
          /\ fatal' = fatal \cup {"getHookConfig"}
          /\ hook' = hook
       \/ /\ hook' \in HookConfigs
          /\ mpc' = "ResolveAutoMode"
          /\ UNCHANGED <<logged, panicking, fatal>>
    /\ UNCHANGED <<cmdline, mode, container, rootfs, execArgs, exitStatus>>
    /\ UNCHANGED <<hvars, gvars>>

\* info.ResolveAutoMode(...) != "legacy"
NotLegacy(m) == m # "legacy"

\* The mode is resolved; any mode but "legacy" is refused.
doPrestart_ResolveAutoMode ==
    /\ mpc = "ResolveAutoMode"
    /\ \E m \in Modes :
         /\ mode' = m
         /\ IF NotLegacy(m)
               THEN /\ Panicln("invoking the NVIDIA Container Runtime Hook directly is not supported")
                    /\ fatal' = fatal \cup {"mode"}
               ELSE /\ mpc' = "getContainerConfig"
                    /\ UNCHANGED <<logged, panicking, fatal>>
    /\ UNCHANGED <<cmdline, hook, container, rootfs, execArgs, exitStatus, mcalls>>
    /\ UNCHANGED <<hvars, gvars>>

\* nvidia == nil
NotGPUContainer(c) == c.Nvidia = None

\* container := getContainerConfig(hook, *ociConfigPath), or a panic; a
\* container without an NVIDIA section makes doPrestart return.
doPrestart_getContainerConfig ==
    /\ mpc = "getContainerConfig"
    /\ mcalls' = mcalls \cup {"getContainerConfig"}
    /\ \/ /\ Panicln("couldn't read the container configuration")
          /\ fatal' = fatal \cup {"getContainerConfig"}
          /\ container' = container
       \/ /\ container' \in ContainerConfigs
          /\ mpc' = IF NotGPUContainer(container') THEN "exit" ELSE "getRootfsPath"
          /\ UNCHANGED <<logged, panicking, fatal>>
    /\ UNCHANGED <<cmdline, hook, mode, rootfs, execArgs, exitStatus>>
    /\ UNCHANGED <<hvars, gvars>>

\* filepath.Abs of a relative path: the working directory joined to it.
Abs(wd, p) == IF p # <<>> /\ p[1] = "/" THEN Clean(p) ELSE Clean(wd \o p)

\* getRootfsPath: filepath.Abs(config.Rootfs), which fails when the working
\* directory cannot be determined.
doPrestart_getRootfsPath ==
    /\ mpc = "getRootfsPath"
    /\ mcalls' = mcalls \cup {"filepath.Abs"}
    /\ \/ /\ Panicln("getwd failed")
          /\ fatal' = fatal \cup {"rootfs"}
          /\ rootfs' = rootfs
       \/ /\ rootfs' = Abs(<<"/", "run", "containerd", "bundle">>, container.Rootfs)
          /\ mpc' = "getCLIPath"
          /\ UNCHANGED <<logged, panicking, fatal>>
    /\ UNCHANGED <<cmdline, hook, mode, container, execArgs, exitStatus>>
    /\ UNCHANGED <<hvars, gvars>>

\* Where exec.LookPath can find nvidia-container-cli.
LookPathResults ==
    {<<"/", "usr", "bin", "nvidia-container-cli">>,
     <<"/", "usr", "local", "nvidia", "toolkit", "nvidia-container-cli">>}

\* getCLIPath: the configured path, or PATH is set and the CLI looked up.
doPrestart_getCLIPath ==
    /\ mpc = "getCLIPath"
    /\ LET cli == hook.NvidiaContainerCLI
       IN  IF cli.Path # None
              THEN /\ execArgs' = <<cli.Path[1]>>
                   /\ mpc' = "args"
                   /\ UNCHANGED <<logged, panicking, fatal, mcalls>>
              ELSE \/ /\ Panicln("couldn't set PATH variable")
                      /\ fatal' = fatal \cup {"setenv"}
                      /\ mcalls' = mcalls \cup {"os.Setenv"}
                      /\ execArgs' = execArgs
                   \/ /\ Panicln("couldn't find binary nvidia-container-cli")
                      /\ fatal' = fatal \cup {"lookpath"}
                      /\ mcalls' = mcalls \cup {"os.Setenv", "exec.LookPath"}
                      /\ execArgs' = execArgs
                   \/ /\ \E path \in LookPathResults : execArgs' = <<path>>
                      /\ mcalls' = mcalls \cup {"os.Setenv", "exec.LookPath"}
                      /\ mpc' = "args"
                      /\ UNCHANGED <<logged, panicking, fatal>>
    /\ UNCHANGED <<cmdline, hook, mode, container, rootfs, exitStatus>>
    /\ UNCHANGED <<hvars, gvars>>

\* An argument added when a flag is set or a pointer is not nil.
If(b, arg) == IF b THEN <<arg>> ELSE <<>>
Opt(o, prefix) == IF o = None THEN <<>> ELSE << <<prefix>> \o o[1] >>

\* strconv.FormatUint(n, 10)
RECURSIVE FormatUint(_)
FormatUint(n) ==
    LET digit(d) == <<"0", "1", "2", "3", "4", "5", "6", "7", "8", "9">>[d + 1]
    IN  IF n < 10 THEN <<digit(n)>>
        ELSE FormatUint(n \div 10) \o <<digit(n % 10)>>

\* The capabilities the loop over strings.Split(DriverCapabilities, ",")
\* reaches: those before the first empty one.
RECURSIVE Capabilities(_)
Capabilities(caps) ==
    IF caps = <<>> \/ Head(caps) = "" THEN <<>>
    ELSE <<Head(caps)>> \o Capabilities(Tail(caps))

\* The capabilities capabilityToCLI knows; it panics on any other.
KnownCapabilities == {"compute", "compat32", "display", "graphics", "ngx", "utility", "video"}

capabilityToCLI(cap) == <<"--", cap>>

\* The arguments doPrestart adds after the CLI's path.
CLIArgs(h, c, debug, root) ==
    LET cli == h.NvidiaContainerCLI
        nvidia == c.Nvidia[1]
        caps == Capabilities(nvidia.DriverCapabilities)
    IN  Opt(cli.Root, "--root=")
        \o If(cli.LoadKmods, <<"--load-kmods">>)
        \o If(cli.NoPivot, <<"--no-pivot">>)
        \o (IF debug THEN << <<"--debug=", "/", "dev", "stderr">> >>
                     ELSE Opt(cli.Debug, "--debug="))
        \o Opt(cli.Ldcache, "--ldcache=")
        \o Opt(cli.User, "--user=")
        \o << <<"configure">> >>
        \o Opt(cli.Ldconfig, "--ldconfig=")
        \o If(cli.NoCgroups, <<"--no-cgroups">>)
        \o If(nvidia.Devices # "", <<"--device=", nvidia.Devices>>)
        \o If(nvidia.MigConfigDevices # "", <<"--mig-config=", nvidia.MigConfigDevices>>)
        \o If(nvidia.MigMonitorDevices # "", <<"--mig-monitor=", nvidia.MigMonitorDevices>>)
        \o [k \in 1..Len(caps) |-> capabilityToCLI(caps[k])]
        \o (IF ~h.DisableRequire /\ ~nvidia.DisableRequire
               THEN [k \in 1..Len(nvidia.Requirements) |->
                        <<"--require=", nvidia.Requirements[k]>>]
               ELSE <<>>)
        \o << <<"--pid=">> \o FormatUint(c.Pid) >>
        \o <<root>>

\* The arguments are built; an unknown capability makes capabilityToCLI panic.
doPrestart_args ==
    /\ mpc = "args"
    /\ IF \E k \in 1..Len(Capabilities(container.Nvidia[1].DriverCapabilities)) :
            Capabilities(container.Nvidia[1].DriverCapabilities)[k] \notin KnownCapabilities
          THEN /\ Panicln("unknown driver capability")
               /\ fatal' = fatal \cup {"capability"}
               /\ execArgs' = execArgs
          ELSE /\ execArgs' = execArgs \o CLIArgs(hook, container, cmdline.debugflag, rootfs)
               /\ mpc' = "Exec"
               /\ UNCHANGED <<logged, panicking, fatal>>
    /\ UNCHANGED <<cmdline, hook, mode, container, rootfs, exitStatus, mcalls>>
    /\ UNCHANGED <<hvars, gvars>>

\* syscall.Exec(args[0], args, env): the process becomes the CLI, or the call
\* returns an error and doPrestart panics.
doPrestart_Exec ==
    /\ mpc = "Exec"
    /\ mcalls' = mcalls \cup {"syscall.Exec"}
    /\ \/ /\ mpc' = "nvidia-container-cli"
          /\ UNCHANGED <<logged, panicking, fatal>>
       \/ /\ Panicln("exec failed")
          /\ fatal' = fatal \cup {"exec"}
    /\ UNCHANGED <<cmdline, hook, mode, container, rootfs, execArgs, exitStatus>>
    /\ UNCHANGED <<hvars, gvars>>

\* os.Exit(0) on both paths of exit().
ExitStatus_zero(p) == 0

\* The status exit() ends the process with.
ExitStatus(p) == IF p # None THEN 1 ELSE 0

\* exit(), deferred by doPrestart: recover, log the stack under -debug, exit.
exit ==
    /\ mpc = "exit"
    /\ logged' = IF panicking # None /\ cmdline.debugflag
                    THEN Append(logged, "debug.Stack()")
                    ELSE logged
    /\ panicking' = None
    /\ Exit(ExitStatus(panicking))
    /\ UNCHANGED <<cmdline, hook, mode, container, rootfs, execArgs, mcalls, fatal>>
    /\ UNCHANGED <<hvars, gvars>>

MainNext ==
    \/ main
    \/ doPrestart_getHookConfig
    \/ doPrestart_ResolveAutoMode
    \/ doPrestart_getContainerConfig
    \/ doPrestart_getRootfsPath
    \/ doPrestart_getCLIPath
    \/ doPrestart_args
    \/ doPrestart_Exec
    \/ exit

(* --------------------------- specifications ---------------------------- *)

\* A call of drmDevicesByPath.Hooks.
HooksInit == HooksStart("Devices") /\ GraphicsStart("idle") /\ MainStart("idle")

SpecHooks == HooksInit /\ [][HooksNext]_vars

\* A call of NewGraphicsDiscoverer.
GraphicsInit ==
    HooksStart("idle") /\ GraphicsStart("NewLibraryLocator") /\ MainStart("idle")

SpecGraphics == GraphicsInit /\ [][GraphicsNext]_vars

\* A run of nvidia-container-runtime-hook.
MainInit == HooksStart("idle") /\ GraphicsStart("idle") /\ MainStart("main")

SpecMain == MainInit /\ [][MainNext]_vars

(* ------------------------ claims about Hooks --------------------------- *)

\* Hooks has returned.
HooksDone == hpc = "done"

\* The link arguments of the first n candidates, from what Readlink returned.
RECURSIVE ExpectedLinks(_, _, _, _)
ExpectedLinks(cands, rls, devs, n) ==
    IF n = 0 THEN <<>>
    ELSE LET prev == ExpectedLinks(cands, rls, devs, n - 1)
             t == rls[n].target
             b == IF t = <<>> THEN "." ELSE t[Len(t)]
         IN  IF rls[n].ok
                /\ \E k \in 1..Len(devs) :
                     LET h == devs[k].HostPath
                     IN  b = (IF h = <<>> THEN "." ELSE h[Len(h)])
                THEN Append(prev, t \o <<"::">> \o cands[n])
                ELSE prev

\* C2: when the by-path glob succeeds, getSpecificLinkArgs returns, in
\* candidate order, exactly one target::symlink entry for each candidate whose
\* link could be read and whose target's basename is the basename of a
\* selected device's HostPath; an unreadable candidate is skipped and the call
\* does not fail.
C2_LinksExact ==
    (HooksDone /\ ~devices.err /\ Len(devices.list) > 0 /\ ~candidates.err)
    => /\ hooksRes.err = "nil"
       /\ Len(readlinks) = Len(candidates.list)
       /\ links = ExpectedLinks(candidates.list, readlinks, devices.list,
                                Len(candidates.list))

\* C2 witness: card0 selected; links to ../card0 (kept), unreadable (skipped)
\* and ../card1 (not selected): exactly the card0 entry is returned.
C2_Witness ==
    /\ HooksDone
    /\ devices = Ok(<<Device("card0")>>)
    /\ candidates = Ok(<<ByPathLinks[1], ByPathLinks[2], ByPathLinks[3]>>)
    /\ readlinks = << [ok |-> TRUE, target |-> <<"..", "card0">>],
                      ReadlinkFailed,
                      [ok |-> TRUE, target |-> <<"..", "card1">>] >>
    /\ links = << <<"..", "card0", "::", "/", "dev", "dri", "by-path",
                    "pci-0000:01:00.0-card">> >>
    /\ hooksRes.err = "nil"

\* C3: with a non-empty device list, a successful Hooks returns exactly one
\* hook: createContainer, Path the helper path, Args = Path, "hook",
\* "create-symlinks", then each link in order preceded by its own "--link".
C3_OneHook ==
    (HooksDone /\ hooksRes.err = "nil" /\ ~devices.err /\ Len(devices.list) > 0)
    => /\ Len(hooksRes.hooks) = 1
       /\ LET h == hooksRes.hooks[1]
          IN  /\ h.Lifecycle = "createContainer"
              /\ h.Path = hookPath
              /\ Len(h.Args) = 3 + 2 * Len(links)
              /\ h.Args[1] = h.Path
              /\ h.Args[2] = <<"hook">>
              /\ h.Args[3] = <<"create-symlinks">>
              /\ \A k \in 1..Len(links) :
                   /\ h.Args[2 + 2 * k] = <<"--link">>
                   /\ h.Args[3 + 2 * k] = links[k]

\* C3 witness: one hook carrying two links.
C3_Witness ==
    /\ HooksDone
    /\ Len(hooksRes.hooks) = 1
    /\ Len(links) = 2
    /\ Len(hooksRes.hooks[1].Args) = 7

\* C4: when the upstream Devices() succeeds with no devices, Hooks returns no
\* hook and no error, and has called neither the executable locator nor the
\* by-path locator.
C4_NoDevicesNoHooks ==
    (HooksDone /\ ~devices.err /\ Len(devices.list) = 0)
    => /\ hooksRes.hooks = <<>>
       /\ hooksRes.err = "nil"
       /\ calls = {"devicesFrom.Devices"}

\* C4 witness: Hooks returned on an empty device list.
C4_Witness ==
    /\ HooksDone
    /\ devices = Ok(<<>>)
    /\ hooksRes.hooks = <<>>

\* C7: when the upstream Devices() fails, or locating the by-path symlinks
\* fails, Hooks returns that failure and an empty hook list.
C7_NoPartialPlan ==
    /\ (HooksDone /\ devices.err)
       => /\ hooksRes.hooks = <<>>
          /\ hooksRes.err = "failed to discover devices for by-path symlinks"
    /\ (HooksDone /\ candidates.err)
       => /\ hooksRes.hooks = <<>>
          /\ hooksRes.err = "failed to determine specific links"

\* C7 witness: the by-path glob failed after devices and a helper were found.
C7_Witness ==
    /\ HooksDone
    /\ candidates.err
    /\ Len(devices.list) = 2
    /\ hookPath = CTKCandidates[1]
    /\ hooksRes.hooks = <<>>

\* C8: with a non-empty device list, the helper lookup never makes Hooks
\* fail (only Devices() or the by-path glob do), and the hook's Path and
\* Args[0] are the default path when the locator fails or finds nothing, its
\* first candidate otherwise.
C8_HelperFallback ==
    /\ (HooksDone /\ hooksRes.err # "nil") => (devices.err \/ candidates.err)
    /\ (HooksDone /\ ~devices.err /\ Len(devices.list) > 0 /\ ~candidates.err)
       => /\ Len(hooksRes.hooks) = 1
          /\ LET want == IF targets.err \/ targets.list = <<>>
                            THEN nvidiaCTKDefaultFilePath
                            ELSE targets.list[1]
             IN  /\ hooksRes.hooks[1].Path = want
                 /\ hooksRes.hooks[1].Args[1] = want

\* C8 witness: the executable locator failed and the hook names the default.
C8_Witness ==
    /\ HooksDone
    /\ targets.err
    /\ Len(hooksRes.hooks) = 1
    /\ hooksRes.hooks[1].Path = nvidiaCTKDefaultFilePath

(* ----------------- claims about NewGraphicsDiscoverer ------------------ *)

GraphicsDone == gpc = "done"

\* The bus IDs of the parsed GPU records one of whose minor, UUID and bus
\* location VisibleDevices contains.
VisibleBusIds ==
    {infos[k].info["Bus Location"] :
        k \in {i \in 1..Len(infos) :
                 /\ ~infos[i].err
                 /\ \/ visible.all
                    \/ infos[i].info["Device Minor"] \in visible.ids
                    \/ infos[i].info["GPU UUID"] \in visible.ids
                    \/ infos[i].info["Bus Location"] \in visible.ids}}

\* The nodes GetDeviceNodesByBusID returned for the visible GPUs.
VisibleNodes ==
    UNION {Range(drmQueried[j].list) :
             j \in {i \in 1..Len(drmQueried) : drmQueried[i].busID \in VisibleBusIds}}

\* The devices the returned filter is asked about.
ProbeDevices ==
    {Device(n) : n \in DRMNodeNames}
    \cup {[Path |-> p, HostPath |-> DevDri("card0")] :
            p \in {<<"/", "dev", "dri", ".", "card0">>, <<"card0">>, <<>>}}

\* C1: when newDRMDeviceFilter succeeds, the filter's DeviceIsSelected(d) is
\* true exactly when d.Path is one of the nodes GetDeviceNodesByBusID returned
\* for a GPU whose minor, UUID or bus location is in VisibleDevices; every
\* such GPU was asked about.
C1_FilterExact ==
    (GraphicsDone /\ filterRes.err = "nil")
    => /\ Len(filterRes.val) = 1
       /\ \A b \in VisibleBusIds : \E j \in 1..Len(drmQueried) : drmQueried[j].busID = b
       /\ \A d \in ProbeDevices :
            DeviceIsSelected(filterRes.val[1], d) <=> d.Path \in VisibleNodes

\* C1 witness: minor 0 on bus 0000:01:00.0 with card0 and renderD128, minor 1
\* on bus 0000:02:00.0, VisibleDevices = {"0"}: exactly card0 and renderD128.
C1_Witness ==
    /\ GraphicsDone
    /\ visible = [all |-> FALSE, ids |-> {"0"}]
    /\ gpuInformationPaths = Ok(<<HostGPUs[1], HostGPUs[2]>>)
    /\ Len(filterRes.val) = 1
    /\ {d \in ProbeDevices : DeviceIsSelected(filterRes.val[1], d)}
         = {Device("card0"), Device("renderD128")}

\* A failure newDRMDeviceFilter met.
FilterInputFailed ==
    \/ gpuInformationPaths.err
    \/ \E k \in 1..Len(infos) : infos[k].err
    \/ \E j \in 1..Len(drmQueried) : drmQueried[j].err

\* The call returned an error and nothing else.
OnlyError(res) == res.val = <<>> /\ res.err \notin {"nil", "pending"}

\* C5: when reading the information file paths, parsing a file, or
\* GetDeviceNodesByBusID for a selected bus ID fails, newDRMDeviceFilter,
\* newDRMDeviceDiscoverer and NewGraphicsDiscoverer each return an error and
\* no value.
C5_FailureIsFatal ==
    (GraphicsDone /\ FilterInputFailed)
    => /\ OnlyError(filterRes)
       /\ OnlyError(drmRes)
       /\ OnlyError(graphicsRes)

\* C5 witness: the second selected bus ID failed after the first one's nodes
\* had been put in the filter.
C5_Witness ==
    /\ GraphicsDone
    /\ Len(drmQueried) = 2
    /\ drmQueried[2].err
    /\ filter # {}
    /\ filterRes.val = <<>>
    /\ graphicsRes.val = <<>>

\* C6 as stated: NewGraphicsDiscoverer returns an error only if the locator
\* could not be constructed.
C6_OnlyLocatorErrors ==
    (GraphicsDone /\ graphicsRes.err # "nil") => locatorErr

\* C6 amended: NewGraphicsDiscoverer returns an error (and no discoverer)
\* exactly when the locator could not be constructed or the DRM device
\* discoverer could not (paths, parse or bus ID query failed); otherwise it
\* returns the merged discoverer and no error.
C6_ErrorsExactly ==
    GraphicsDone
    => IF locatorErr \/ FilterInputFailed
          THEN graphicsRes.val = <<>> /\ graphicsRes.err \notin {"nil", "pending"}
          ELSE /\ graphicsRes.err = "nil"
               /\ Len(graphicsRes.val) = 1
               /\ graphicsRes.val[1].kind = "merge"

\* C6 witness: the locator was constructed, the GPU information could not be
\* read, and NewGraphicsDiscoverer returned an error.
C6_Witness ==
    /\ GraphicsDone
    /\ ~locatorErr
    /\ gpuInformationPaths.err
    /\ graphicsRes = Nil("failed to create DRM device discoverer")

(* ------------------ claims about the runtime hook binary --------------- *)

\* The fatal conditions of the prestart command that C9 names.
PrestartFatal == {"mode", "setenv", "lookpath", "rootfs", "exec"}

\* C9: in the prestart command, once the mode is not "legacy", PATH cannot be
\* set, the CLI cannot be found, the rootfs path cannot be made absolute or
\* the exec fails, a diagnostic has been logged, the process is in exit() or
\* has exited, it exits with status 1, and the CLI is not exec'd afterwards.
C9_FatalExitsOne ==
    /\ (mode \notin {"", "legacy"}) => "mode" \in fatal
    /\ (fatal \cap PrestartFatal # {})
       => /\ Len(logged) >= 1
          /\ mpc \in {"exit", "exited"}
          /\ mpc = "exited" => exitStatus = 1
    /\ (fatal \cap (PrestartFatal \ {"exec"}) # {}) => "syscall.Exec" \notin mcalls
    /\ mpc = "nvidia-container-cli" => fatal = {}

\* C9 witness: the exec of the CLI failed and the process exited with 1.
C9_Witness ==
    /\ mpc = "exited"
    /\ fatal = {"exec"}
    /\ "syscall.Exec" \in mcalls
    /\ exitStatus = 1
    /\ logged # <<>>

\* C10: prestart in legacy mode on a container without an NVIDIA section
\* exits with status 0 and neither looks up nor execs the CLI; poststart and
\* poststop exit with status 0 and read no configuration and exec nothing.
C10_NoOpExitsZero ==
    /\ ( /\ mode = "legacy"
         /\ "getContainerConfig" \in mcalls
         /\ "getContainerConfig" \notin fatal
         /\ container.Nvidia = <<>> )
       => /\ mcalls \cap {"os.Setenv", "exec.LookPath", "syscall.Exec"} = {}
          /\ mpc \in {"exit", "exited"}
          /\ mpc = "exited" => exitStatus = 0
    /\ (cmdline.args \in {<<"poststart">>, <<"poststop">>})
       => /\ mcalls = {}
          /\ mpc \in {"main", "exited"}
          /\ mpc = "exited" => exitStatus = 0

\* C10 witness: prestart, legacy mode, no NVIDIA section: exited with 0.
C10_Witness ==
    /\ mpc = "exited"
    /\ cmdline.args = <<"prestart">>
    /\ mode = "legacy"
    /\ container \in ContainerConfigs
    /\ container.Nvidia = <<>>
    /\ exitStatus = 0
    /\ mcalls = {"getHookConfig", "getContainerConfig"}

====
